---- MODULE Spec2Model ----
(***************************************************************************)
(* A model of cascflow (src/src/cascflow/cascflow.py): the three-stage     *)
(* batch stager (initialize_batch_directory, execute, move_to_stage_2,     *)
(* move_to_stage_3) over a POSIX filesystem, and the lookups it makes in   *)
(* the catalog (find_archival_object); the classifier                      *)
(* validate_metadata_identifier; the reconciliation of file versions       *)
(* (save_digital_object_file_versions); the connection manager and the     *)
(* retried remote operations; create_digital_object.                       *)
(*                                                                         *)
(* Strings the code compares or cuts (entry names, component ids) are      *)
(* sequences of character codes, so that sorted() and Path.stem are        *)
(* computed the way Python computes them.                                  *)
(***************************************************************************)
EXTENDS Naturals, Sequences, FiniteSets

VARIABLES
    source,      \* the directory <volume>/<RELATIVE_SOURCE_DIRECTORY>
    rootExists,  \* the batch root <batch_set_id>--<pipeline> exists
    stage,       \* stage[i]: the directory STAGE_i of the batch root
    catalog,     \* component id -> number of archival objects the repository
                 \* holds, for the ids looked up so far
    pc,          \* position of the execute() generator
    err,         \* the exception that ended the generator ("" if none)
    queue,       \* the sorted Path objects <<stage, name>> the loop has still
                 \* to visit; the head is the one being processed
    cur,         \* the archival objects resolved for Head(queue): none or one
    yielded,     \* every tuple execute() has yielded, in order (history)
    moved,       \* ids of the entries this run's move_to_stage_2 has moved (history)
    run,         \* number of execute() generators started so far
    created,     \* number of entries the operator has put into the source
    pre,         \* the filesystem an initialize_batch_directory call started from
    batchIds,    \* ids of every entry a run has listed in STAGE_1_INITIAL (history)
    v            \* the calls made outside execute() (validate_metadata_identifier,
                 \* save_digital_object_file_versions, create_digital_object, the
                 \* remote operations): arguments, what the repository and the
                 \* object store answer, locals and module globals

stagerVars == <<source, rootExists, stage, pc, err, queue, cur, yielded,
                moved, run, created, pre, batchIds>>

vars == <<source, rootExists, stage, catalog, pc, err, queue, cur, yielded,
          moved, run, created, pre, batchIds, v>>

(***************************************************************************)
(* Bounds of the model.                                                    *)
(***************************************************************************)
NumNames == 4
MaxEntries == 3
MaxRuns == 2
MaxMatches == 2

(***************************************************************************)
(* Names: "b1", "a2", "c3", ".DS", "a2.t" as character codes.              *)
(***************************************************************************)
NameList ==
    << <<98, 49>>, <<97, 50>>, <<99, 51>>, <<46, 68, 83>>, <<97, 50, 46, 116>>,
       <<97>> >>

Min(a, b) == IF a < b THEN a ELSE b

Names == {NameList[i] : i \in 1..Min(NumNames, Len(NameList))}

\* config("FILES_TO_REMOVE", cast=Csv()): here the single name ".DS"
FilesToRemove == { <<46, 68, 83>> }

(***************************************************************************)
(* Python's str comparison (the sort key is obj.name): code point by code  *)
(* point, a proper prefix first.                                           *)
(***************************************************************************)
RECURSIVE StrLess(_, _)
StrLess(a, b) ==
    IF b = <<>> THEN FALSE
    ELSE IF a = <<>> THEN TRUE
    ELSE IF Head(a) < Head(b) THEN TRUE
    ELSE IF Head(a) > Head(b) THEN FALSE
    ELSE StrLess(Tail(a), Tail(b))

\* str.rfind("."): the last index holding a dot, 0 when there is none
RECURSIVE RFindDot(_, _)
RFindDot(s, i) ==
    IF i = 0 THEN 0
    ELSE IF s[i] = 46 THEN i
    ELSE RFindDot(s, i - 1)

\* pathlib's PurePath.stem: the name without its suffix; a dot that starts
\* or ends the name starts no suffix.
Stem(name) ==
    LET i == RFindDot(name, Len(name))
    IN  IF 1 < i /\ i < Len(name) THEN SubSeq(name, 1, i - 1) ELSE name

Ids == {Stem(n) : n \in Names}

(***************************************************************************)
(* Entries.  An entry is a file or a directory; kids are the kinds of the  *)
(* immediate children of a directory: "f" a file, "j" a file whose name is *)
(* in FILES_TO_REMOVE.  gen tells apart two entries of the same name that  *)
(* the operator put into the source for different runs.                    *)
(* A directory of the layout is [exists, entries].                         *)
(***************************************************************************)
Shapes ==
    { [kind |-> "file", kids |-> {}],
      [kind |-> "dir", kids |-> {"f"}],
      [kind |-> "dir", kids |-> {"j"}] }

NoDir == [exists |-> FALSE, entries |-> {}]

EmptyDir == [exists |-> TRUE, entries |-> {}]

Id(e) == <<e.name, e.gen>>

IdsOf(dir) == {Id(e) : e \in dir.entries}

\* what is at path dir/n: no entry or one
At(dir, n) == {e \in dir.entries : e.name = n}

(***************************************************************************)
(* os.rename(src, dst) on POSIX, decided by what is at dst (xs: the        *)
(* entries at dst, none or one).                                           *)
(***************************************************************************)
RenameOutcome(e, xs) ==
    IF xs = {} THEN "ok"
    ELSE LET t == CHOOSE x \in xs : TRUE
         IN  IF e.kind = "file" /\ t.kind = "file" THEN "ok"
             ELSE IF e.kind = "file" THEN "IsADirectoryError"
             ELSE IF t.kind = "file" THEN "NotADirectoryError"
             ELSE IF t.kids = {} THEN "ok"
             ELSE "OSError_ENOTEMPTY"

\* path_obj.rename(batch_directory / STAGE_t / path_obj.name), path_obj being
\* STAGE_s / n.  Returns the error ("" for none) and the stage directories.
MoveTo(st, s, n, t) ==
    IF At(st[s], n) = {} \/ ~st[t].exists
    THEN [err |-> "FileNotFoundError", stage |-> st]
    ELSE LET e == CHOOSE x \in At(st[s], n) : TRUE
         IN  IF s = t THEN [err |-> "", stage |-> st]
             ELSE IF RenameOutcome(e, At(st[t], n)) # "ok"
             THEN [err |-> RenameOutcome(e, At(st[t], n)), stage |-> st]
             ELSE [err |-> "",
                   stage |-> [st EXCEPT
                       ![s].entries = @ \ {e},
                       ![t].entries = (@ \ At(st[t], n)) \cup {e}]]

move_to_stage_2_ToComplete(st, s, n) == MoveTo(st, s, n, 3)

move_to_stage_2(st, s, n) == MoveTo(st, s, n, 2)

move_to_stage_3(st, s, n) == MoveTo(st, s, n, 3)

(***************************************************************************)
(* initialize_batch_directory: mkdir of the batch root (exist_ok), rename  *)
(* of the source directory onto STAGE_1_INITIAL, mkdir of STAGE_2_WORKING  *)
(* and STAGE_3_COMPLETE (exist_ok), mkdir of the source.  The rename of a  *)
(* directory onto a directory replaces an empty one and fails on a         *)
(* non-empty one.  Returns the error and the filesystem it leaves.         *)
(***************************************************************************)
\* mutant: the directory is made anew, whatever it held
MkdirExistOk_Recreates(dir) == EmptyDir

MkdirExistOk(dir) == IF dir.exists THEN dir ELSE EmptyDir

\* mutant: the rename replaces a non-empty directory too
RenameDirOnto_Replaces(src, dst) ==
    IF ~src.exists THEN "FileNotFoundError" ELSE "ok"

RenameDirOnto(src, dst) ==
    IF ~src.exists THEN "FileNotFoundError"
    ELSE IF dst.exists /\ dst.entries # {} THEN "OSError_ENOTEMPTY"
    ELSE "ok"

\* mutant: the source directory is not made again
initialize_batch_directory_NoSourceMkdir(src, root, st) ==
    IF RenameDirOnto(src, st[1]) # "ok"
    THEN [err |-> RenameDirOnto(src, st[1]), source |-> src, root |-> TRUE,
          stage |-> st]
    ELSE [err |-> "", source |-> NoDir, root |-> TRUE,
          stage |-> [i \in 1..3 |-> IF i = 1 THEN src ELSE MkdirExistOk(st[i])]]

initialize_batch_directory(src, root, st) ==
    IF RenameDirOnto(src, st[1]) # "ok"
    THEN [err |-> RenameDirOnto(src, st[1]), source |-> src, root |-> TRUE,
          stage |-> st]
    ELSE [err |-> "", source |-> EmptyDir, root |-> TRUE,
          stage |-> [i \in 1..3 |-> IF i = 1 THEN src ELSE MkdirExistOk(st[i])]]

(***************************************************************************)
(* The housekeeping pass of execute(): unlink every file under the batch   *)
(* root whose name is in FILES_TO_REMOVE (glob("**/*"), is_file()).        *)
(***************************************************************************)
Unlinked(dir) ==
    [dir EXCEPT !.entries =
        { [e EXCEPT !.kids = @ \ {"j"}] :
            e \in {x \in dir.entries :
                     ~(x.kind = "file" /\ x.name \in FilesToRemove)} }]

delete_files_to_remove_Skipped(st) == st

delete_files_to_remove(st) == [i \in 1..3 |-> Unlinked(st[i])]

(***************************************************************************)
(* sorted(STAGE_1_INITIAL.iterdir(), key=lambda obj: obj.name): iterdir    *)
(* gives the Path objects <<stage, name>> in any order; sorted() is        *)
(* modelled as an insertion sort on StrLess of the names.                  *)
(***************************************************************************)
Orders(S) ==
    {q \in [1..Cardinality(S) -> S] : \A i, j \in 1..Cardinality(S) :
                                         i # j => q[i] # q[j]}

RECURSIVE Insert(_, _)
Insert(x, q) ==
    IF q = <<>> THEN <<x>>
    ELSE IF StrLess(x[2], Head(q)[2]) THEN <<x>> \o q
    ELSE <<Head(q)>> \o Insert(x, Tail(q))

\* mutant: the listing is not sorted
SortedByName_NoSort(q) == q

RECURSIVE SortedByName(_)
SortedByName(q) ==
    IF q = <<>> THEN <<>> ELSE Insert(Head(q), SortedByName(Tail(q)))

NamesIn(dir) == {e.name : e \in dir.entries}

\* mutant: the loop lists the entries of every stage directory
ListedPaths_AllStages(st) ==
    UNION {{<<i, n>> : n \in NamesIn(st[i])} : i \in 1..3}

\* batch_directory.joinpath("STAGE_1_INITIAL").iterdir()
ListedPaths(st) == {<<1, n>> : n \in NamesIn(st[1])}

(***************************************************************************)
(* find_archival_object(component_id): the find_by_id request returns the  *)
(* refs of the matching archival objects; none or several raise            *)
(* ValueError, one is fetched with its relations resolved.                 *)
(***************************************************************************)
FindById(cat, cid) == [i \in 1..cat[cid] |-> <<cid, i>>]

Fetch(ref) == [uri |-> ref, component_id |-> ref[1]]

\* mutant: of several matches the first is taken
find_archival_object_FirstMatch(cat, cid) ==
    LET refs == FindById(cat, cid)
    IN  IF Len(refs) < 1 THEN [err |-> "ValueError_NOT_FOUND", records |-> {}]
        ELSE [err |-> "", records |-> {Fetch(refs[1])}]

find_archival_object(cat, cid) ==
    LET refs == FindById(cat, cid)
    IN  IF Len(refs) < 1 THEN [err |-> "ValueError_NOT_FOUND", records |-> {}]
        ELSE IF Len(refs) > 1 THEN [err |-> "ValueError_MULTIPLE", records |-> {}]
        ELSE [err |-> "", records |-> {Fetch(refs[1])}]

\* the file set execute() yields with an entry at STAGE_2_WORKING/n
Filepaths(st, n) ==
    IF At(st[2], n) = {} THEN {}
    ELSE LET e == CHOOSE x \in At(st[2], n) : TRUE
         IN  IF e.kind = "file" THEN {"self"} ELSE e.kids

(***************************************************************************)
(* The state after construction: no batch root, a source directory that    *)
(* may not exist yet, and no generator.  The repository is an external     *)
(* collaborator: how many archival objects (0..MaxMatches) it holds for a  *)
(* component id is drawn when the id is first looked up, and stays.        *)
(***************************************************************************)
NoCall == [pc |-> "none"]

NoPre == [valid |-> FALSE, source |-> NoDir, root |-> FALSE,
          stage |-> [i \in 1..3 |-> NoDir]]

Init ==
    /\ source \in {NoDir, EmptyDir}
    /\ rootExists = FALSE
    /\ stage = [i \in 1..3 |-> NoDir]
    /\ catalog = <<>>
    /\ pc = "idle"
    /\ err = ""
    /\ queue = <<>>
    /\ cur = {}
    /\ yielded = <<>>
    /\ moved = <<>>
    /\ run = 0
    /\ created = 0
    /\ pre = NoPre
    /\ batchIds = {}
    /\ v = NoCall

\* the repository as it shows itself when cid is looked up
Reveal(cat, cid) ==
    IF cid \in DOMAIN cat THEN {cat}
    ELSE {[i \in DOMAIN cat \cup {cid} |-> IF i = cid THEN c ELSE cat[i]] :
             c \in 0..MaxMatches}

\* the generator is not running: its caller, or the operator, may act
Quiescent == pc \in {"idle", "suspended", "done", "failed"}

(***************************************************************************)
(* The operator of the volume: creates the source directory, and puts an   *)
(* entry into it.                                                          *)
(***************************************************************************)
OperatorMkdirSource ==
    /\ Quiescent
    /\ ~source.exists
    /\ source' = EmptyDir
    /\ pre' = NoPre
    /\ UNCHANGED <<v, rootExists, stage, catalog, pc, err, queue, cur, yielded,
                   moved, run, created, batchIds>>

OperatorPut(n, sh) ==
    /\ Quiescent
    /\ source.exists
    /\ created < MaxEntries
    /\ n \notin NamesIn(source)
    /\ source' = [source EXCEPT !.entries =
                     @ \cup {[name |-> n, gen |-> run + 1, kind |-> sh.kind,
                              kids |-> sh.kids]}]
    /\ created' = created + 1
    /\ pre' = NoPre
    /\ UNCHANGED <<v, rootExists, stage, catalog, pc, err, queue, cur, yielded,
                   moved, run, batchIds>>

(***************************************************************************)
(* execute(source_volume, batch_set_id, pipeline), a generator: its body   *)
(* runs from the first next().                                             *)
(***************************************************************************)
\* line 283: batch_directory = initialize_batch_directory(...)
Execute_Initialize ==
    /\ Quiescent
    /\ run < MaxRuns
    /\ LET r == initialize_batch_directory(source, rootExists, stage)
       IN  /\ source' = r.source
           /\ rootExists' = r.root
           /\ stage' = r.stage
           /\ err' = r.err
           /\ pc' = IF r.err = "" THEN "housekeeping" ELSE "failed"
    /\ pre' = [valid |-> TRUE, source |-> source, root |-> rootExists,
               stage |-> stage]
    /\ run' = run + 1
    /\ queue' = <<>>
    /\ cur' = {}
    /\ moved' = <<>>
    /\ UNCHANGED <<v, catalog, yielded, created, batchIds>>

\* lines 285-293: the housekeeping pass, then the sorted listing of STAGE_1_INITIAL
Execute_Housekeeping ==
    /\ pc = "housekeeping"
    /\ stage' = delete_files_to_remove(stage)
    /\ \E order \in Orders(ListedPaths(stage')) :
          queue' = SortedByName(order)
    /\ batchIds' = batchIds \cup IdsOf(stage'[1])
    /\ pc' = IF ListedPaths(stage') = {} THEN "done" ELSE "resolve"
    /\ pre' = NoPre
    /\ UNCHANGED <<v, source, rootExists, catalog, err, cur, yielded, moved, run,
                   created>>

\* lines 295-296: the log line reads archival_object['id'] and ['uri'];
\* get_arrangement (lines 236-279) reads repository/_resolved/name and
\* repo_code, display_string, level and ancestors, and raises again what a
\* read raises.  holds: the record the repository answered with has these
\* keys.
get_arrangement(holds) == IF holds THEN "" ELSE "KeyError"

\* lines 294-296: find_archival_object(stage_1_path_obj.stem), the log line,
\* get_arrangement
Execute_Resolve ==
    /\ pc = "resolve"
    /\ \E cat \in Reveal(catalog, Stem(Head(queue)[2])), holds \in BOOLEAN :
          LET r == find_archival_object(cat, Stem(Head(queue)[2]))
              e == IF r.err # "" THEN r.err ELSE get_arrangement(holds)
          IN  /\ catalog' = cat
              /\ cur' = IF e = "" THEN r.records ELSE {}
              /\ err' = e
              /\ pc' = IF e = "" THEN "move" ELSE "failed"
    /\ UNCHANGED <<v, source, rootExists, stage, queue, yielded, moved, run,
                   created, pre, batchIds>>

\* line 297: stage_2_path_obj = move_to_stage_2(stage_1_path_obj, batch_directory)
Execute_Move ==
    /\ pc = "move"
    /\ LET r == move_to_stage_2(stage, Head(queue)[1], Head(queue)[2])
       IN  /\ stage' = r.stage
           /\ err' = r.err
           /\ pc' = IF r.err = "" THEN "yield" ELSE "failed"
           /\ moved' = IF r.err = ""
                       THEN moved \o [i \in 1..1 |->
                              Id(CHOOSE e \in At(stage[Head(queue)[1]],
                                                  Head(queue)[2]) : TRUE)]
                       ELSE moved
    /\ UNCHANGED <<v, source, rootExists, catalog, queue, cur, yielded, run,
                   created, pre, batchIds>>

\* lines 298-304: the file set of the entry, and the yield
Execute_Yield ==
    /\ pc = "yield"
    /\ yielded' = Append(yielded,
                    [run |-> run, name |-> Head(queue)[2],
                     ids |-> {Id(e) : e \in At(stage[2], Head(queue)[2])},
                     files |-> Filepaths(stage, Head(queue)[2]),
                     record |-> cur])
    /\ pc' = "suspended"
    /\ UNCHANGED <<v, source, rootExists, stage, catalog, err, queue, cur, moved,
                   run, created, pre, batchIds>>

\* the caller's next next(): the loop goes on to the following path object
Execute_Resume ==
    /\ pc = "suspended"
    /\ queue' = Tail(queue)
    /\ cur' = {}
    /\ pc' = IF Tail(queue) = <<>> THEN "done" ELSE "resolve"
    /\ UNCHANGED <<v, source, rootExists, stage, catalog, err, yielded, moved, run,
                   created, pre, batchIds>>

\* the process is killed between two steps of the generator
Crash ==
    /\ pc \in {"housekeeping", "resolve", "move", "yield"}
    /\ pc' = "idle"
    /\ err' = "killed"
    /\ queue' = <<>>
    /\ cur' = {}
    /\ pre' = NoPre
    /\ UNCHANGED <<v, source, rootExists, stage, catalog, yielded, moved, run,
                   created, batchIds>>

(***************************************************************************)
(* The consumer of the tuples: advances a yielded entry to                 *)
(* STAGE_3_COMPLETE with move_to_stage_3(stage_2_path_obj, batch_dir).     *)
(***************************************************************************)
YieldedNames == {yielded[i].name : i \in 1..Len(yielded)}

Consumer_Complete(n) ==
    /\ Quiescent
    /\ n \in YieldedNames
    /\ At(stage[2], n) # {}
    /\ move_to_stage_3(stage, 2, n).err = ""
    /\ stage' = move_to_stage_3(stage, 2, n).stage
    /\ pre' = NoPre
    /\ UNCHANGED <<v, source, rootExists, catalog, pc, err, queue, cur, yielded,
                   moved, run, created, batchIds>>

Next ==
    \/ OperatorMkdirSource
    \/ \E n \in Names, sh \in Shapes : OperatorPut(n, sh)
    \/ Execute_Initialize
    \/ Execute_Housekeeping
    \/ Execute_Resolve
    \/ Execute_Move
    \/ Execute_Yield
    \/ Execute_Resume
    \/ Crash
    \/ \E n \in Names : Consumer_Complete(n)

Spec == Init /\ [][Next]_vars

(***************************************************************************)
(* One execute() on a fresh batch root, with a caller that hands           *)
(* move_to_stage_2 and move_to_stage_3 the path of any entry of the batch  *)
(* root: the two functions take any Path and do not look at the stage it   *)
(* is in.                                                                  *)
(***************************************************************************)
Caller_MoveAnyPath(s, n, t) ==
    /\ Quiescent
    /\ At(stage[s], n) # {}
    /\ LET r == IF t = 2 THEN move_to_stage_2(stage, s, n)
                ELSE move_to_stage_3(stage, s, n)
       IN  /\ r.err = ""
           /\ r.stage # stage
           /\ stage' = r.stage
    /\ pre' = NoPre
    /\ UNCHANGED <<v, source, rootExists, catalog, pc, err, queue, cur, yielded,
                   moved, run, created, batchIds>>

Execute_InitializeFresh == run = 0 /\ Execute_Initialize

NextAnyPath ==
    \/ OperatorMkdirSource
    \/ \E n \in Names, sh \in Shapes : OperatorPut(n, sh)
    \/ Execute_InitializeFresh
    \/ Execute_Housekeeping
    \/ Execute_Resolve
    \/ Execute_Move
    \/ Execute_Yield
    \/ Execute_Resume
    \/ \E s \in 1..3, n \in Names, t \in 2..3 : Caller_MoveAnyPath(s, n, t)

SpecAnyPath == Init /\ [][NextAnyPath]_vars

(***************************************************************************)
(* validate_metadata_identifier(identifier, target, ...).  The object      *)
(* store publishes the items of a resource under the key prefixes          *)
(* "<path_prefix>/<resource_id>/<component_id>/"; strings are sequences of *)
(* character codes ("/" is 47), so that p.split("/")[-2] is computed.      *)
(***************************************************************************)
\* config("COMMON_PATH_PREFIX"): here "p"
PathPrefix == <<112>>

\* config("S3_BUCKET"): here "b"
S3_BUCKET == <<98>>

\* config("ARCHIVESSPACE_REPOSITORY_ID", default="2")
ARCHIVESSPACE_REPOSITORY_ID == "2"

\* an optional str argument: None, or a str
NoStr == [none |-> TRUE, str |-> <<>>]

Str(s) == [none |-> FALSE, str |-> s]

\* the bucket and path_prefix a call is made with: the default "", None,
\* or the configured value
BucketArgs == {Str(<<>>), NoStr, Str(S3_BUCKET)}

PathPrefixArgs == {Str(<<>>), NoStr, Str(PathPrefix)}

\* the repository_id a call is made with: the default "", or another
\* repository than the one find_archival_object looks in
RepositoryIdArgs == {"", "3"}

PrefixOf(rid, cid) == PathPrefix \o <<47>> \o rid \o <<47>> \o cid \o <<47>>

\* the keys the bucket S3_BUCKET holds for the published items of a
\* resource: "<COMMON_PATH_PREFIX>/<resource_id>/<component_id>/f"
StoredKeys(rid, published) == {PrefixOf(rid, c) \o <<102>> : c \in published}

RECURSIVE SortedStrings(_)
SortedStrings(S) ==
    IF S = {} THEN <<>>
    ELSE LET m == CHOOSE x \in S : \A y \in S \ {x} : StrLess(x, y)
         IN  <<m>> \o SortedStrings(S \ {m})

\* str.startswith
StartsWith(s, prefix) == Len(prefix) <= Len(s) /\ SubSeq(s, 1, Len(prefix)) = prefix

\* s up to its first "/", the "/" included
RECURSIVE UpToSlash(_)
UpToSlash(s) ==
    IF s = <<>> THEN <<>>
    ELSE IF Head(s) = 47 THEN <<47>>
    ELSE <<Head(s)>> \o UpToSlash(Tail(s))

\* list_objects_v2 with Delimiter="/": the keys under the prefix that have
\* a "/" after it are rolled up into the common prefixes that end there
CommonPrefixesOf(keys, prefix) ==
    {prefix \o UpToSlash(SubSeq(k, Len(prefix) + 1, Len(k))) :
        k \in {x \in keys :
                  /\ StartsWith(x, prefix)
                  /\ \E i \in (Len(prefix) + 1)..Len(x) : x[i] = 47}}

\* paginator.paginate(Bucket=bucket, Delimiter="/", Prefix=prefix): one page;
\* boto3 leaves the key CommonPrefixes out of a page that has none.  keys
\* are the keys of the bucket S3_BUCKET; another bucket name lists none.
S3Pages(bucket, prefix, keys) ==
    LET cps == IF bucket = S3_BUCKET THEN CommonPrefixesOf(keys, prefix) ELSE {}
    IN  IF cps = {}
        THEN << [has |-> FALSE, CommonPrefixes |-> <<>>] >>
        ELSE << [has |-> TRUE, CommonPrefixes |-> SortedStrings(cps)] >>

RECURSIVE AllPrefixes(_)
AllPrefixes(pages) ==
    IF pages = <<>> THEN <<>>
    ELSE Head(pages).CommonPrefixes \o AllPrefixes(Tail(pages))

\* lines 489-492: config stands in for an argument that is None, and for
\* no other.  for result in pages: for prefix in
\* result.get("CommonPrefixes"): append; result.get gives None for a page
\* without the key, and iterating None raises TypeError.
get_s3_resource_archival_object_paths(resource_id, bucket, path_prefix, keys) ==
    LET b == IF bucket.none THEN S3_BUCKET ELSE bucket.str
        p == IF path_prefix.none THEN PathPrefix ELSE path_prefix.str
        pages == S3Pages(b, p \o <<47>> \o resource_id \o <<47>>, keys)
    IN  IF \E i \in 1..Len(pages) : ~pages[i].has
        THEN [err |-> "TypeError", paths |-> <<>>]
        ELSE [err |-> "", paths |-> AllPrefixes(pages)]

\* str.split("/")
RECURSIVE SplitSlash(_, _)
SplitSlash(s, acc) ==
    IF s = <<>> THEN <<acc>>
    ELSE IF Head(s) = 47 THEN <<acc>> \o SplitSlash(Tail(s), <<>>)
    ELSE SplitSlash(Tail(s), Append(acc, Head(s)))

\* p.split("/")[-2]
ComponentIdOf(p) == LET parts == SplitSlash(p, <<>>) IN parts[Len(parts) - 1]

\* classify_archival_object_eligibility(component_id): the record under its
\* id in the dict eligible_archival_objects, or, on ValueError, the id
\* appended to the list ineligible_archival_objects
classify_archival_object_eligibility(cat, cid, eligible, ineligible) ==
    LET r == find_archival_object(cat, cid)
    IN  IF r.err = ""
        THEN [eligible |-> {p \in eligible : p.component_id # cid} \cup
                           {[component_id |-> cid, record |-> x] : x \in r.records},
              ineligible |-> ineligible]
        ELSE [eligible |-> eligible, ineligible |-> Append(ineligible, cid)]

\* lines 589-621: the two lookups and the choice of the level
IdentifierLevel(target, nResources, nArchivalObjects) ==
    IF target = "metadata" /\ nResources = 1 /\ nArchivalObjects < 1
    THEN "resource"
    ELSE "archival_object"

\* lines 572-573: the repository the two lookups of lines 591-596 go to
RepositoryOf(repository_id) ==
    IF repository_id = "" THEN ARCHIVESSPACE_REPOSITORY_ID ELSE repository_id

\* v.resources: the resources the repository of the call holds for the
\* identifier; v.items: the archival objects it holds for it, when it is
\* not repository 2, where find_archival_object looks (catalog);
\* v.published: the component ids published under the identifier
InitClassify ==
    /\ source = EmptyDir
    /\ rootExists = FALSE
    /\ stage = [i \in 1..3 |-> NoDir]
    /\ catalog = <<>>
    /\ pc = "idle"
    /\ err = ""
    /\ queue = <<>>
    /\ cur = {}
    /\ yielded = <<>>
    /\ moved = <<>>
    /\ run = 0
    /\ created = 0
    /\ pre = NoPre
    /\ batchIds = {}
    /\ v \in {x \in [pc : {"called"}, identifier : Ids,
                      target : {"metadata", "files"},
                      repository_id : RepositoryIdArgs,
                      bucket : BucketArgs, path_prefix : PathPrefixArgs,
                      resources : 0..MaxMatches, items : 0..MaxMatches,
                      published : SUBSET Ids,
                      level : {""}, all : {<<>>}, candidates : {<<>>},
                      eligible : {{}}, ineligible : {<<>>}, err : {""}] :
                  RepositoryOf(x.repository_id) = "2" => x.items = 0}

\* lines 572-573, 589-610 and 613-621: the lookups, the level, the candidates
V_Decide ==
    /\ v.pc = "called"
    /\ \E cat \in (IF /\ v.target = "metadata"
                       /\ RepositoryOf(v.repository_id) = "2"
                    THEN Reveal(catalog, v.identifier)
                    ELSE {catalog}) :
          LET n == IF v.target # "metadata" THEN 0
                   ELSE IF RepositoryOf(v.repository_id) = "2"
                   THEN cat[v.identifier]
                   ELSE v.items
              level == IdentifierLevel(v.target, v.resources, n)
              listed == get_s3_resource_archival_object_paths(
                            v.identifier, v.bucket, v.path_prefix,
                            StoredKeys(v.identifier, v.published))
              ids == IF level = "resource"
                     THEN [i \in 1..Len(listed.paths) |->
                              ComponentIdOf(listed.paths[i])]
                     ELSE <<v.identifier>>
          IN  /\ catalog' = cat
              /\ v' = IF level = "resource" /\ listed.err # ""
                      THEN [v EXCEPT !.pc = "raised", !.err = listed.err]
                      ELSE [v EXCEPT !.pc = "classify", !.level = level,
                                     !.all = ids, !.candidates = ids]
    /\ UNCHANGED stagerVars

\* lines 611-612, 616, 621: the next candidate is classified
V_Classify ==
    /\ v.pc = "classify"
    /\ v.candidates # <<>>
    /\ \E cat \in Reveal(catalog, Head(v.candidates)) :
          LET r == classify_archival_object_eligibility(
                       cat, Head(v.candidates), v.eligible, v.ineligible)
          IN  /\ catalog' = cat
              /\ v' = [v EXCEPT !.eligible = r.eligible,
                                !.ineligible = r.ineligible,
                                !.candidates = Tail(v.candidates)]
    /\ UNCHANGED stagerVars

\* lines 622-626
V_Return ==
    /\ v.pc = "classify"
    /\ v.candidates = <<>>
    /\ v' = [v EXCEPT !.pc = "returned"]
    /\ UNCHANGED <<catalog, stagerVars>>

NextClassify == V_Decide \/ V_Classify \/ V_Return

SpecClassify == InitClassify /\ [][NextClassify]_vars

(***************************************************************************)
(* save_digital_object_file_versions(archival_object, new_file_versions).  *)
(* A file version is a dict with its file_uri, the two flags the code      *)
(* writes and one more field (caption) that it carries along; a Python     *)
(* dict keyed by file_uri is the sequence of its values in insertion       *)
(* order.                                                                  *)
(***************************************************************************)
MaxVersions == 2
MaxCalls == 2

Uris == {"u1", "u2"}

FileVersions ==
    [file_uri : Uris, publish : BOOLEAN, is_representative : BOOLEAN,
     caption : {"x", "y"}]

VersionLists ==
    UNION {[1..n -> FileVersions] : n \in 0..MaxVersions}

UrisOf(fvs) == {fvs[i].file_uri : i \in 1..Len(fvs)}

\* d[key] = value: a key the dict holds keeps its position
DictSet(d, fv) ==
    IF fv.file_uri \in UrisOf(d)
    THEN [i \in 1..Len(d) |-> IF d[i].file_uri = fv.file_uri THEN fv ELSE d[i]]
    ELSE Append(d, fv)

\* {new_file_version["file_uri"]: new_file_version for ... in new_file_versions}
RECURSIVE DictFrom(_, _)
DictFrom(d, fvs) ==
    IF fvs = <<>> THEN d ELSE DictFrom(DictSet(d, Head(fvs)), Tail(fvs))

\* existing_file_version["publish"] = False; ["is_representative"] = False
Demoted(fv) == [fv EXCEPT !.publish = FALSE, !.is_representative = FALSE]

Reconciled_KeepsRepeats(existing, new) ==
    DictFrom(<<>>, new) \o
        SelectSeq([i \in 1..Len(existing) |-> Demoted(existing[i])],
                  LAMBDA e : e.file_uri \notin UrisOf(new))

Reconciled_AppendsAll(existing, new) ==
    DictFrom(<<>>, new) \o [i \in 1..Len(existing) |-> Demoted(existing[i])]

RECURSIVE AddExisting_NoDemotion(_, _)
AddExisting_NoDemotion(d, existing) ==
    IF existing = <<>> THEN d
    ELSE AddExisting_NoDemotion(
             IF Head(existing).file_uri \notin UrisOf(d)
             THEN DictSet(d, Head(existing)) ELSE d,
             Tail(existing))

\* for existing_file_version in existing_file_versions: if its file_uri is
\* not in the dict, it is demoted and added
RECURSIVE AddExisting(_, _)
AddExisting(d, existing) ==
    IF existing = <<>> THEN d
    ELSE AddExisting(
             IF Head(existing).file_uri \notin UrisOf(d)
             THEN DictSet(d, Demoted(Head(existing))) ELSE d,
             Tail(existing))

Reconciled_LegacyFirst(existing, new) ==
    AddExisting(<<>>, SelectSeq(existing, LAMBDA e : e.file_uri \notin UrisOf(new)))
        \o DictFrom(<<>>, new)

\* lines 84-98: file_versions = list(new_file_uri_values.values())
Reconciled(existing, new) == AddExisting(DictFrom(<<>>, new), existing)

\* an instance of the archival object: one without a digital object, or one
\* with the resolved digital object
OtherInstance == [digital_object |-> FALSE]

DigitalObjectInstance(fvs, pub) ==
    [digital_object |-> TRUE, file_versions |-> fvs, publish |-> pub]

\* lines 77-102 for one instance: the instance afterwards
SavedInstance(inst, new) ==
    IF inst.digital_object
    THEN DigitalObjectInstance(Reconciled(inst.file_versions, new), TRUE)
    ELSE inst

InitReconcile ==
    /\ source = EmptyDir
    /\ rootExists = FALSE
    /\ stage = [i \in 1..3 |-> NoDir]
    /\ catalog = <<>>
    /\ pc = "idle"
    /\ err = ""
    /\ queue = <<>>
    /\ cur = {}
    /\ yielded = <<>>
    /\ moved = <<>>
    /\ run = 0
    /\ created = 0
    /\ pre = NoPre
    /\ batchIds = {}
    /\ \E existing \in VersionLists, new \in VersionLists, withDO \in BOOLEAN :
          LET insts == IF withDO
                       THEN <<OtherInstance, DigitalObjectInstance(existing, FALSE)>>
                       ELSE <<OtherInstance>>
          IN  v = [pc |-> "ready", instances |-> insts, new |-> new,
                   repository |-> insts, before |-> insts, first |-> insts,
                   calls |-> 0, raised |-> FALSE]

\* save_digital_object_file_versions: every instance with a digital object
\* gets the reconciled list and publish = True in the record the caller
\* holds, and is posted; update_digital_object raises HTTPError when the
\* repository refuses the post, which ends the loop.
Save_Call ==
    /\ v.pc = "ready"
    /\ v.calls < MaxCalls
    /\ \E refused \in BOOLEAN :
          LET n == Len(v.instances)
              dos == {i \in 1..n : v.instances[i].digital_object}
              stop == IF refused /\ dos # {}
                      THEN CHOOSE i \in dos : \A j \in dos : i <= j
                      ELSE n
              mem == [i \in 1..n |->
                         IF i <= stop THEN SavedInstance(v.instances[i], v.new)
                         ELSE v.instances[i]]
              repo == [i \in 1..n |->
                          IF v.instances[i].digital_object
                             /\ (i < stop \/ (i = stop /\ ~(refused /\ dos # {})))
                          THEN mem[i] ELSE v.repository[i]]
          IN  v' = [v EXCEPT !.instances = mem, !.repository = repo,
                             !.calls = v.calls + 1,
                             !.first = IF v.calls = 0 THEN mem ELSE v.first,
                             !.raised = refused /\ dos # {}]
    /\ UNCHANGED <<catalog, stagerVars>>

NextReconcile == Save_Call

SpecReconcile == InitReconcile /\ [][NextReconcile]_vars

(***************************************************************************)
(* The connection manager: the module globals asnake_client and s3_client, *)
(* the decorators ensure_archivesspace_connection / ensure_s3_connection,  *)
(* and the remote calls made through them.  archivessnake_get and          *)
(* archivessnake_post are wrapped (outside the ensure decorator) in        *)
(* backoff.on_exception(backoff.expo, <classes>, max_time=1800); the three *)
(* object-store functions are not.  Time is counted in seconds, in steps   *)
(* of Tick.                                                                *)
(***************************************************************************)
MaxOps == 2
MaxDirect == 1
Tick == 600
max_time == 1800

RepositoryOps == {"archivessnake_get", "archivessnake_post"}

ObjectStoreOps ==
    {"s3_get_object", "s3_put_object", "get_s3_resource_archival_object_paths"}

TargetOf(op) == IF op \in RepositoryOps THEN "archivesspace" ELSE "s3"

\* the exception classes given to backoff.on_exception
BackoffClasses ==
    {"RemoteDisconnected", "ProtocolError", "NewConnectionError",
     "MaxRetryError", "ConnectionError"}

\* failures of the network between the process and a remote service, as the
\* HTTP client of the repository and the client of the object store raise them
TransientNetwork == BackoffClasses \cup {"EndpointConnectionError"}

\* what a request can end in ("" is a response)
RequestOutcomes(op) ==
    IF op \in RepositoryOps
    THEN {""} \cup BackoffClasses \cup {"ReadTimeout"}
    ELSE {"", "EndpointConnectionError", "ClientError"}
         \cup (IF op = "s3_get_object" THEN {"NoSuchKey"} ELSE {})

\* ASnakeClient(...) / boto3.client(...): built, or config() raises
ConstructorOutcomes == {"", "UndefinedValueError"}

\* asnake_client.authorize()
AuthorizeOutcomes == {"", "ASnakeAuthError", "ConnectionError"}

None == [set |-> FALSE, id |-> 0, authorized |-> FALSE]

\* the decorators named by the stacked @ lines of an operation
HasBackoff(op) == op \in RepositoryOps

\* if asnake_client is None: / if s3_client is None:
NeedsConnection(client) == ~client.set

Retries_AnyFailure(op, e, elapsed) == HasBackoff(op) /\ elapsed < max_time

\* backoff.on_exception: the exception is caught when it is of one of the
\* classes, and the call is tried again unless max_time has elapsed
Retries(op, e, elapsed) ==
    HasBackoff(op) /\ e \in BackoffClasses /\ elapsed < max_time

\* establish_archivesspace_connection(): a constructor that raises leaves
\* the global as it was; the global is assigned before
\* authorize() is called, and an exception of authorize() is re-raised
establish_archivesspace_connection(client, built, ctor, auth) ==
    IF ctor # ""
    THEN [client |-> client, built |-> built, error |-> ctor]
    ELSE [client |-> [set |-> TRUE, id |-> built + 1, authorized |-> auth = ""],
          built |-> built + 1, error |-> auth]

\* establish_s3_connection()
establish_s3_connection(client, built, ctor) ==
    IF ctor # ""
    THEN [client |-> client, built |-> built, error |-> ctor]
    ELSE [client |-> [set |-> TRUE, id |-> built + 1, authorized |-> TRUE],
          built |-> built + 1, error |-> ""]

\* one run of the wrapper of ensure_*_connection around an operation: the
\* client global and the count of clients built afterwards, the request
\* sent if one is, the exception raised if one is
Attempt(op, client, built, ctor, auth, req) ==
    LET est == IF ~NeedsConnection(client)
               THEN [client |-> client, built |-> built, error |-> ""]
               ELSE IF op \in RepositoryOps
               THEN establish_archivesspace_connection(client, built, ctor, auth)
               ELSE establish_s3_connection(client, built, ctor)
    IN  IF est.error # ""
        THEN [client |-> est.client, built |-> est.built, sent |-> {},
              error |-> est.error]
        ELSE [client |-> est.client, built |-> est.built,
              sent |-> {[target |-> TargetOf(op), handle |-> est.client.id,
                         authorized |-> est.client.authorized]},
              error |-> IF req = "NoSuchKey" THEN "" ELSE req]

InitConnection ==
    /\ source = EmptyDir
    /\ rootExists = FALSE
    /\ stage = [i \in 1..3 |-> NoDir]
    /\ catalog = <<>>
    /\ pc = "idle"
    /\ err = ""
    /\ queue = <<>>
    /\ cur = {}
    /\ yielded = <<>>
    /\ moved = <<>>
    /\ run = 0
    /\ created = 0
    /\ pre = NoPre
    /\ batchIds = {}
    /\ v = [pc |-> "idle", op |-> "", ncalls |-> 0, ndirect |-> 0,
            client |-> [archivesspace |-> None, s3 |-> None],
            built |-> [archivesspace |-> 0, s3 |-> 0],
            called |-> {}, sent |-> {}, log |-> <<>>, clock |-> 0,
            result |-> "", authFailed |-> ""]

\* the caller calls one of the five operations
Conn_Call(op) ==
    /\ v.pc = "idle"
    /\ v.ncalls < MaxOps
    /\ v' = [v EXCEPT !.pc = "attempt", !.op = op, !.ncalls = v.ncalls + 1,
                      !.called = v.called \cup {TargetOf(op)},
                      !.log = <<>>, !.clock = 0, !.result = "",
                      !.authFailed = ""]
    /\ UNCHANGED <<catalog, stagerVars>>

\* one attempt of the operation in progress, d seconds after the previous
\* one began (the attempt and, before a retry, the wait of backoff.expo)
Conn_Attempt ==
    /\ v.pc = "attempt"
    /\ \E d \in {Tick, 2 * Tick}, ctor \in ConstructorOutcomes,
          auth \in AuthorizeOutcomes, req \in RequestOutcomes(v.op) :
          LET t == TargetOf(v.op)
              a == Attempt(v.op, v.client[t], v.built[t], ctor, auth, req)
              elapsed == v.clock + d
              again == a.error # "" /\ Retries(v.op, a.error, elapsed)
          IN  v' = [v EXCEPT
                      !.client[t] = a.client,
                      !.built[t] = a.built,
                      !.sent = v.sent \cup a.sent,
                      !.log = Append(v.log, [error |-> a.error, at |-> elapsed]),
                      !.clock = elapsed,
                      !.authFailed = IF a.sent = {} /\ a.client.set /\ a.error # ""
                                     THEN a.error ELSE v.authFailed,
                      !.pc = IF again THEN "attempt" ELSE "idle",
                      !.result = IF again THEN ""
                                 ELSE IF a.error = "" THEN "ok" ELSE a.error]
    /\ UNCHANGED <<catalog, stagerVars>>

\* the caller calls establish_archivesspace_connection() or
\* establish_s3_connection() itself: the functions are public and make no
\* test of the global (the test is in the wrappers, lines 315 and 357)
Conn_Establish(t) ==
    /\ v.pc = "idle"
    /\ v.ndirect < MaxDirect
    /\ \E ctor \in ConstructorOutcomes, auth \in AuthorizeOutcomes :
          LET e == IF t = "archivesspace"
                   THEN establish_archivesspace_connection(
                            v.client[t], v.built[t], ctor, auth)
                   ELSE establish_s3_connection(v.client[t], v.built[t], ctor)
          IN  v' = [v EXCEPT
                      !.op = IF t = "archivesspace"
                             THEN "establish_archivesspace_connection"
                             ELSE "establish_s3_connection",
                      !.ndirect = v.ndirect + 1,
                      !.client[t] = e.client,
                      !.built[t] = e.built,
                      !.log = <<>>, !.clock = 0,
                      !.authFailed = IF e.client # v.client[t] /\ e.error # ""
                                     THEN e.error ELSE "",
                      !.result = IF e.error = "" THEN "ok" ELSE e.error]
    /\ UNCHANGED <<catalog, stagerVars>>

NextConnection ==
    \/ \E op \in RepositoryOps \cup ObjectStoreOps : Conn_Call(op)
    \/ Conn_Attempt
    \/ \E t \in {"archivesspace", "s3"} : Conn_Establish(t)

\* an attempt in progress returns or raises, and backoff's wait ends
SpecConnection ==
    InitConnection /\ [][NextConnection]_vars /\ WF_vars(Conn_Attempt)

(***************************************************************************)
(* create_digital_object(archival_object, digital_object_type).  The       *)
(* repository's answer to the post of the digital object is its JSON: a    *)
(* "uri", or an "error" object whose keys are the fields at fault, the     *)
(* key digital_object_id with a list of messages.                          *)
(***************************************************************************)
MaxInstances == 2

ErrorKeys == {"digital_object_id", "title"}

Messages == {"Must be unique", "Property is required but was missing"}

Created == [error |-> FALSE, keys |-> {}, messages |-> {}]

\* the JSON bodies the post of a digital object can be answered with
PostResponses ==
    {Created} \cup
    {[error |-> TRUE, keys |-> ks, messages |-> ms] :
        ks \in SUBSET ErrorKeys,
        ms \in SUBSET Messages}

\* lines 135-147: the exception the response makes the function raise at
\* once, "" if none
RaisedOnResponse(resp) ==
    IF ~resp.error THEN ""
    ELSE IF "digital_object_id" \in resp.keys
    THEN IF "Must be unique" \in resp.messages THEN "ValueError" ELSE ""
    ELSE "RuntimeError"

\* lines 148-149: digital_object_uri is assigned in the else branch only
UriBound(resp) == ~resp.error

InitCreate ==
    /\ source = EmptyDir
    /\ rootExists = FALSE
    /\ stage = [i \in 1..3 |-> NoDir]
    /\ catalog = <<>>
    /\ pc = "idle"
    /\ err = ""
    /\ queue = <<>>
    /\ cur = {}
    /\ yielded = <<>>
    /\ moved = <<>>
    /\ run = 0
    /\ created = 0
    /\ pre = NoPre
    /\ batchIds = {}
    /\ \E cid \in Ids, n \in 0..MaxInstances, type \in {"", "text"} :
          LET insts == [i \in 1..n |-> [instance_type |-> "mixed_materials",
                                        ref |-> <<"top_containers", i>>]]
          IN  v = [pc |-> "called", component_id |-> cid,
                   digital_object_type |-> type,
                   instances |-> insts, before |-> insts,
                   response |-> Created, digitalObjects |-> 0,
                   recordPosts |-> 0, error |-> "", returned |-> {},
                   repository |-> insts, returnedInstances |-> <<>>]

\* lines 106-150: the digital object is posted and the response examined;
\* line 155 reads digital_object_uri
Create_PostDigitalObject ==
    /\ v.pc = "called"
    /\ \E resp \in PostResponses :
          LET e == RaisedOnResponse(resp)
              made == IF resp.error THEN 0 ELSE 1
          IN  v' = [v EXCEPT
                      !.response = resp,
                      !.digitalObjects = v.digitalObjects + made,
                      !.error = IF e # "" THEN e
                                ELSE IF ~UriBound(resp) THEN "UnboundLocalError"
                                ELSE "",
                      !.pc = IF e # "" \/ ~UriBound(resp) THEN "raised"
                             ELSE "attach"]
    /\ UNCHANGED <<catalog, stagerVars>>

\* lines 153-165: the instance is appended, the archival object posted;
\* the log line reads the "uri" of the response, which an error response
\* does not have.  The repository's record (repository) takes the posted
\* instances when the repository accepts the post; nothing after a refused
\* post removes the digital object (line 167).
Create_Attach ==
    /\ v.pc = "attach"
    /\ \E accepted \in BOOLEAN :
          v' = [v EXCEPT
                  !.instances = Append(v.instances,
                                  [instance_type |-> "digital_object",
                                   ref |-> <<"digital_objects", v.digitalObjects>>]),
                  !.repository = IF accepted
                                 THEN Append(v.instances,
                                        [instance_type |-> "digital_object",
                                         ref |-> <<"digital_objects",
                                                   v.digitalObjects>>])
                                 ELSE @,
                  !.recordPosts = v.recordPosts + 1,
                  !.error = IF accepted THEN "" ELSE "KeyError",
                  !.pc = IF accepted THEN "refetch" ELSE "raised"]
    /\ UNCHANGED <<catalog, stagerVars>>

\* lines 169-172: find_archival_object() again, and the return; the record
\* fetched carries the instances the repository holds
Create_Refetch ==
    /\ v.pc = "refetch"
    /\ \E cat \in Reveal(catalog, v.component_id) :
          LET r == find_archival_object(cat, v.component_id)
          IN  /\ catalog' = cat
              /\ v' = [v EXCEPT !.error = r.err,
                                !.returned = r.records,
                                !.returnedInstances =
                                    IF r.err = "" THEN v.repository ELSE @,
                                !.pc = IF r.err = "" THEN "returned" ELSE "raised"]
    /\ UNCHANGED stagerVars

NextCreate == Create_PostDigitalObject \/ Create_Attach \/ Create_Refetch

SpecCreate == InitCreate /\ [][NextCreate]_vars

(***************************************************************************)
(* validate_digital_files(context): the pre-flight inspection of the       *)
(* source directory.  The immediate children of a directory entry are      *)
(* kinds: "f" a file, "j" a file named in FILES_TO_REMOVE, "d" a           *)
(* subdirectory.                                                           *)
(***************************************************************************)
MaxListed == 2

InspectedShapes ==
    {[kind |-> "file", kids |-> {}]} \cup
    {[kind |-> "dir", kids |-> ks] : ks \in SUBSET {"f", "j", "d"}}

\* the source directories with at most MaxListed entries
InspectedSources ==
    {[exists |-> TRUE,
      entries |-> {[name |-> n, gen |-> 1, kind |-> sh[n].kind, kids |-> sh[n].kids] :
                      n \in ns}] :
        ns \in {x \in SUBSET Names : Cardinality(x) <= MaxListed},
        sh \in [Names -> InspectedShapes]}

\* child.is_file() for one of the children of an entry
FileKids(e) == e.kids \cap {"f", "j"}

\* inspect_entry_directory(entry, nested_directories, empty_directories):
\* appends to the two lists it is given and returns them
inspect_entry_directory(e, nested, empty) ==
    [nested |-> IF "d" \in e.kids THEN Append(nested, e.name) ELSE nested,
     empty |-> IF FileKids(e) = {} THEN Append(empty, e.name) ELSE empty]

\* eligible_archival_objects.update(...): the keys of the argument replace
DictUpdate(eligible, more) ==
    {p \in eligible : p.component_id \notin {q.component_id : q \in more}} \cup more

InitValidate ==
    /\ source \in {NoDir} \cup InspectedSources
    /\ rootExists = FALSE
    /\ stage = [i \in 1..3 |-> NoDir]
    /\ catalog = <<>>
    /\ pc = "idle"
    /\ err = ""
    /\ queue = <<>>
    /\ cur = {}
    /\ yielded = <<>>
    /\ moved = <<>>
    /\ run = 0
    /\ created = 0
    /\ pre = NoPre
    /\ batchIds = {}
    /\ v = [pc |-> "called", listed |-> {}, todo |-> <<>>, eligible |-> {},
            ineligible |-> <<>>, nested_directories |-> <<>>,
            empty_directories |-> <<>>, file_count |-> 0, error |-> ""]

\* lines 710-720: validate_source_path, delete_files_to_remove(source_path),
\* and the order in which iterdir() gives the entries
Validate_Start ==
    /\ v.pc = "called"
    /\ IF ~source.exists
       THEN /\ v' = [v EXCEPT !.pc = "raised", !.error = "FileNotFoundError"]
            /\ UNCHANGED source
       ELSE /\ source' = Unlinked(source)
            /\ \E order \in Orders(NamesIn(source')) :
                  v' = [v EXCEPT !.pc = "loop", !.todo = order,
                                 !.listed = source'.entries]
    /\ UNCHANGED <<catalog, rootExists, stage, pc, err, queue, cur, yielded,
                   moved, run, created, pre, batchIds>>

\* lines 720-743: one iteration of the loop over the entries
Validate_Entry ==
    /\ v.pc = "loop"
    /\ v.todo # <<>>
    /\ \E cat \in Reveal(catalog, Stem(Head(v.todo))) :
          LET e == CHOOSE x \in source.entries : x.name = Head(v.todo)
              c == classify_archival_object_eligibility(
                       cat, Stem(e.name), {}, <<>>)
              i == inspect_entry_directory(
                       e, v.nested_directories, v.empty_directories)
          IN  /\ catalog' = cat
              /\ v' = [v EXCEPT
                         !.todo = Tail(v.todo),
                         !.eligible = DictUpdate(v.eligible, c.eligible),
                         !.ineligible = v.ineligible \o c.ineligible,
                         !.nested_directories =
                             IF e.kind = "dir" THEN i.nested \o i.nested ELSE @,
                         !.empty_directories =
                             IF e.kind = "dir" THEN i.empty \o i.empty ELSE @,
                         !.file_count =
                             IF e.kind = "file" THEN @ + 1
                             ELSE @ + Cardinality(FileKids(e))]
    /\ UNCHANGED stagerVars

\* lines 744-751
Validate_Return ==
    /\ v.pc = "loop"
    /\ v.todo = <<>>
    /\ v' = [v EXCEPT !.pc = "returned"]
    /\ UNCHANGED <<catalog, stagerVars>>

NextValidate == Validate_Start \/ Validate_Entry \/ Validate_Return

SpecValidate == InitValidate /\ [][NextValidate]_vars

(***************************************************************************)
(* Properties.                                                             *)
(***************************************************************************)
StagesHolding(st, id) == {i \in 1..3 : id \in IdsOf(st[i])}

\* the tuples the generator of run r has yielded, in order
RECURSIVE YieldsOfRun(_, _)
YieldsOfRun(ys, r) ==
    IF ys = <<>> THEN <<>>
    ELSE IF Head(ys).run = r THEN <<Head(ys)>> \o YieldsOfRun(Tail(ys), r)
    ELSE YieldsOfRun(Tail(ys), r)

LookupFailed == pc = "failed" /\ err \in {"ValueError_NOT_FOUND", "ValueError_MULTIPLE"}

\* C1: every entry a run has listed in STAGE_1_INITIAL is, in every
\* reachable state, in exactly one of the three stage directories.
C1_StageExclusivity ==
    \A id \in batchIds : Cardinality(StagesHolding(stage, id)) = 1

\* C2: whatever execute, move_to_stage_2 and move_to_stage_3 do, an entry
\* that changes stage goes from STAGE_1 to STAGE_2 or from STAGE_2 to
\* STAGE_3, and nowhere else.
C2_OneDirectional ==
    [][\A id \in batchIds :
         \A a \in StagesHolding(stage, id), b \in StagesHolding(stage', id) :
            a # b => <<a, b>> \in {<<1, 2>>, <<2, 3>>}]_vars

\* C3: the tuples of one run are yielded in strictly increasing order of
\* their names (Python's str order), every path still in the queue comes
\* after every tuple yielded, an entry is moved only when all the entries
\* moved before it in the run have been yielded, and a run that ends
\* normally has emptied STAGE_1_INITIAL.
C3_ProcessingOrder ==
    LET ys == YieldsOfRun(yielded, run)
    IN  /\ \A i, j \in 1..Len(ys) : i < j => StrLess(ys[i].name, ys[j].name)
        /\ \A i \in 1..Len(ys), k \in 1..Len(queue) :
              \/ StrLess(ys[i].name, queue[k][2])
              \/ (pc = "suspended" /\ k = 1 /\ i = Len(ys)
                    /\ ys[i].name = queue[k][2])
        /\ \A k \in 1..Len(moved) :
              k < Len(moved) => \E i \in 1..Len(ys) : ys[i].ids = {moved[k]}
        /\ Len(moved) - Len(ys) \in {0, 1}
        /\ (pc = "done" => stage[1].entries = {} /\ Len(ys) = Len(moved))

C3_Witness ==
    LET ys == YieldsOfRun(yielded, run)
    IN  /\ pc = "done"
        /\ Len(ys) = 3
        /\ ys[1].name = <<97, 50>>
        /\ ys[2].name = <<98, 49>>
        /\ ys[3].name = <<99, 51>>

\* C4: the generator goes past the lookup of an entry only when the
\* repository holds exactly one archival object for its component id; when
\* the lookup fails, the run has ended with the error, the entry and every
\* later entry of the queue are in STAGE_1_INITIAL and were not yielded by
\* the run, and every entry the run moved is in STAGE_2 or STAGE_3.
C4_FailFast ==
    /\ pc \in {"move", "yield", "suspended"}
          => catalog[Stem(Head(queue)[2])] = 1
    /\ LookupFailed =>
          /\ queue # <<>>
          /\ catalog[Stem(Head(queue)[2])] # 1
          /\ \A k \in 1..Len(queue) :
                /\ queue[k][2] \in NamesIn(stage[1])
                /\ \A i \in 1..Len(yielded) :
                      yielded[i].run = run => yielded[i].name # queue[k][2]
          /\ \A k \in 1..Len(moved) :
                StagesHolding(stage, moved[k]) \in {{2}, {3}}

C4_Witness ==
    /\ LookupFailed
    /\ err = "ValueError_MULTIPLE"
    /\ Len(queue) = 2
    /\ Len(moved) = 1
    /\ StagesHolding(stage, moved[1]) = {3}

\* C5 as claimed: an execute() invoked again on a batch root whose run was
\* aborted (entries in STAGE_2/STAGE_3, entries still in STAGE_1) does not
\* fail in initialize_batch_directory.
C5_ResumeSucceeds ==
    (/\ pre.valid
     /\ pre.stage[1].entries # {}
     /\ pre.stage[2].entries \cup pre.stage[3].entries # {})
        => err = ""

\* C5 as amended: an execute() invoked on a batch root whose
\* STAGE_1_INITIAL still holds entries fails in initialize_batch_directory,
\* before anything is yielded, and leaves the source and the three stage
\* directories as they were.
C5_ResumeFailsSafely ==
    (pre.valid /\ pre.stage[1].entries # {})
        => /\ pc = "failed"
           /\ err \in {"OSError_ENOTEMPTY", "FileNotFoundError"}
           /\ stage = pre.stage
           /\ source = pre.source
           /\ YieldsOfRun(yielded, run) = <<>>

C5_Witness ==
    /\ pre.valid
    /\ pre.stage[1].entries # {}
    /\ pre.stage[2].entries # {}
    /\ pre.source.entries # {}
    /\ pc = "failed"
    /\ Len(yielded) > 0

\* C6: no entry is yielded twice, by one run or by two.
C6_SinglePass ==
    \A i, j \in 1..Len(yielded) : i # j => yielded[i].ids \cap yielded[j].ids = {}

C6_Witness ==
    \E i, j \in 1..Len(yielded) :
        /\ yielded[i].run = 1
        /\ yielded[j].run = 2
        /\ \E k \in 2..3 : yielded[i].ids \subseteq IdsOf(stage[k])

\* C7: initialize_batch_directory called with an existing source directory
\* and no batch root succeeds, and leaves in STAGE_1_INITIAL exactly the
\* entries the source held, STAGE_2_WORKING and STAGE_3_COMPLETE existing
\* and empty, and the source existing and empty.
C7_InitializePostcondition ==
    (pre.valid /\ pre.source.exists /\ ~pre.root)
        => /\ err = ""
           /\ pc = "housekeeping"
           /\ rootExists
           /\ stage[1] = [exists |-> TRUE, entries |-> pre.source.entries]
           /\ stage[2] = EmptyDir
           /\ stage[3] = EmptyDir
           /\ source = EmptyDir

C7_Witness ==
    /\ pre.valid
    /\ pre.source.exists
    /\ ~pre.root
    /\ Cardinality(pre.source.entries) = 2
    /\ pc = "housekeeping"

\* C8 as claimed: initialize_batch_directory fails whenever entries are
\* already staged under the batch root.
C8_FailsOnStagedEntries ==
    (pre.valid /\ \E i \in 1..3 : pre.stage[i].entries # {})
        => pc = "failed"

\* C8 as amended: initialize_batch_directory fails exactly when
\* STAGE_1_INITIAL of the batch root holds entries or the source directory
\* is missing, and then changes no stage directory; otherwise it succeeds,
\* also when the stage directories exist and when STAGE_2_WORKING or
\* STAGE_3_COMPLETE hold entries, which stay where they are beside the new
\* contents of STAGE_1_INITIAL.
C8_FailsIffStage1Holds ==
    pre.valid =>
        /\ pc = "failed" <=> (pre.stage[1].entries # {} \/ ~pre.source.exists)
        /\ pc = "failed" => stage = pre.stage /\ source = pre.source
        /\ pc # "failed" =>
              /\ pc = "housekeeping"
              /\ stage[1].entries = pre.source.entries
              /\ stage[2].entries = pre.stage[2].entries
              /\ stage[3].entries = pre.stage[3].entries
              /\ \A i \in 1..3 : stage[i].exists

C8_Witness ==
    /\ pre.valid
    /\ pre.stage[1] = EmptyDir
    /\ pre.stage[2].entries # {}
    /\ pre.source.entries # {}
    /\ pc = "housekeeping"

\* what a returned call has classified
Candidates == {v.all[i] : i \in 1..Len(v.all)}

EligibleKeys == {p.component_id : p \in v.eligible}

Ineligible == {v.ineligible[i] : i \in 1..Len(v.ineligible)}

\* C9: when validate_metadata_identifier returns, a candidate is a key of
\* eligible_archival_objects (mapped to its fetched record) iff the
\* repository holds exactly one archival object for it, it is in
\* ineligible_archival_objects iff the repository holds none, and the two
\* are disjoint and hold every candidate.
C9_ClassificationPartition ==
    v.pc = "returned" =>
        /\ \A c \in Candidates :
              /\ c \in EligibleKeys <=> catalog[c] = 1
              /\ c \in Ineligible <=> catalog[c] = 0
              /\ c \in EligibleKeys =>
                    [component_id |-> c, record |-> Fetch(<<c, 1>>)] \in v.eligible
        /\ EligibleKeys \cap Ineligible = {}
        /\ EligibleKeys \cup Ineligible = Candidates

\* what the item lookup of a call with the target "metadata" was answered
ItemLookup ==
    IF RepositoryOf(v.repository_id) = "2" THEN catalog[v.identifier]
    ELSE v.items

\* C10: a call of validate_metadata_identifier returns the level "resource"
\* when the target is "metadata", the resource lookup gives one match and
\* the item lookup none, and in every other case returns the level
\* "archival_object" having classified the identifier alone.
C10_ResourceDecision ==
    v.pc \in {"returned", "raised"} =>
        IF v.target = "metadata" /\ v.resources = 1 /\ ItemLookup = 0
        THEN v.pc = "returned" /\ v.level = "resource"
        ELSE /\ v.pc = "returned"
             /\ v.level = "archival_object"
             /\ v.all = <<v.identifier>>

\* the identifier of the call denotes a resource (lines 596-600)
DenotesResource ==
    v.target = "metadata" /\ v.resources = 1 /\ ItemLookup = 0

\* C11: when the identifier denotes a resource, the call returns and the
\* candidates it has classified (eligible keys and ineligible ids) are
\* exactly the component ids whose prefixes the object store lists under
\* the resource, whatever their number, none included.
C11_ResourceEnumeration ==
    (v.pc \in {"returned", "raised"} /\ DenotesResource) =>
        /\ v.pc = "returned"
        /\ EligibleKeys \cup Ineligible = v.published

\* C12: a component id with more than one archival object in the
\* repository is never recorded as an outcome of the classification
\* (eligible or ineligible), and no call that has looked one up returns.
C12_MultipleMatchFatal ==
    /\ \A c \in EligibleKeys \cup Ineligible : catalog[c] < 2
    /\ v.pc = "returned" => \A c \in Candidates : catalog[c] < 2

\* the digital object of a record, before the first call and now, in the
\* record the caller holds and in the repository
DigitalObjects(insts) == {i \in 1..Len(insts) : insts[i].digital_object}

NoRepeat(fvs) ==
    \A i, j \in 1..Len(fvs) : fvs[i].file_uri = fvs[j].file_uri => i = j

\* the last entry of fvs with the given file_uri
LastWith(fvs, uri) ==
    fvs[CHOOSE i \in 1..Len(fvs) :
            /\ fvs[i].file_uri = uri
            /\ \A j \in 1..Len(fvs) : fvs[j].file_uri = uri => j <= i]

\* C13: after save_digital_object_file_versions, whatever the existing and
\* the new lists (repeated file URIs included), the digital object's
\* file_versions hold no two entries with the same file_uri and their URIs
\* are exactly those of the existing and of the new entries; a call that
\* returns has left this list in the repository.
C13_ReconcileUnique ==
    v.calls >= 1 =>
        \A i \in DigitalObjects(v.instances) :
            LET fvs == v.instances[i].file_versions
            IN  /\ NoRepeat(fvs)
                /\ UrisOf(fvs) = UrisOf(v.before[i].file_versions) \cup UrisOf(v.new)
                /\ ~v.raised => v.repository[i] = v.instances[i]

C13_Witness ==
    /\ v.calls = 1
    /\ ~v.raised
    /\ \E i \in DigitalObjects(v.instances) :
          /\ ~NoRepeat(v.new)
          /\ ~NoRepeat(v.before[i].file_versions)
          /\ UrisOf(v.before[i].file_versions) \cap UrisOf(v.new) = {}

\* C14: a second call of save_digital_object_file_versions on the same
\* record with the same new_file_versions leaves the digital object with
\* the file_versions the first call gave it: same entries, same flags,
\* same order.
C14_ReconcileIdempotent ==
    v.calls = 2 =>
        /\ v.instances = v.first
        /\ \A i \in DigitalObjects(v.instances) :
              ~v.raised => v.repository[i] = v.first[i]

C14_Witness ==
    /\ v.calls = 2
    /\ ~v.raised
    /\ \E i \in DigitalObjects(v.instances) :
          /\ Len(v.new) = 2
          /\ NoRepeat(v.new)
          /\ Len(v.before[i].file_versions) = 2
          /\ \E k \in 1..2 : /\ v.before[i].file_versions[k].file_uri \in UrisOf(v.new)
                             /\ v.before[i].file_versions[k].publish
          /\ v.first[i].file_versions # v.before[i].file_versions

\* the first entry of fvs with the given file_uri
FirstWith(fvs, uri) ==
    fvs[CHOOSE i \in 1..Len(fvs) :
            /\ fvs[i].file_uri = uri
            /\ \A j \in 1..Len(fvs) : fvs[j].file_uri = uri => i <= j]

\* every file URI of new_file_versions is present once, with the entry
\* new_file_versions supplies for it, flags unchanged
NewEntriesWin(fvs) ==
    \A u \in UrisOf(v.new) :
        \E j \in 1..Len(fvs) :
            /\ fvs[j] = LastWith(v.new, u)
            /\ \A m \in 1..Len(fvs) : fvs[m].file_uri = u => m = j

\* C15 as claimed: after save_digital_object_file_versions, every file
\* version that was attached before and whose file_uri does not occur in
\* new_file_versions is still present, with publish and is_representative
\* false; every file URI of new_file_versions is present with the entry
\* new_file_versions supplies for it, flags unchanged.
C15_PreservesEveryVersion ==
    v.calls >= 1 =>
        \A i \in DigitalObjects(v.instances) :
            LET fvs == v.instances[i].file_versions
                old == v.before[i].file_versions
            IN  /\ \A k \in 1..Len(old) :
                      old[k].file_uri \notin UrisOf(v.new) =>
                          \E j \in 1..Len(fvs) : fvs[j] = Demoted(old[k])
                /\ NewEntriesWin(fvs)

\* C15 as amended: after save_digital_object_file_versions, for every
\* file URI that was attached before and does not occur in
\* new_file_versions, exactly one entry with that URI is present: the
\* first of the entries that were attached under it, with publish and
\* is_representative false (a later attached entry that repeats the URI is
\* dropped); every file URI of new_file_versions is present with the entry
\* new_file_versions supplies for it, flags unchanged.
C15_ReconcilePreserves ==
    v.calls >= 1 =>
        \A i \in DigitalObjects(v.instances) :
            LET fvs == v.instances[i].file_versions
                old == v.before[i].file_versions
            IN  /\ \A u \in UrisOf(old) \ UrisOf(v.new) :
                      \E j \in 1..Len(fvs) :
                          /\ fvs[j] = Demoted(FirstWith(old, u))
                          /\ \A m \in 1..Len(fvs) : fvs[m].file_uri = u => m = j
                /\ NewEntriesWin(fvs)

\* two entries attached under one URI that new_file_versions does not
\* name, and a new entry under the other URI
C15_Witness ==
    /\ v.calls = 1
    /\ v.new # <<>>
    /\ \E i \in DigitalObjects(v.instances) :
          LET old == v.before[i].file_versions
          IN  /\ Len(old) = 2
              /\ old[1].file_uri = old[2].file_uri
              /\ old[1].file_uri \notin UrisOf(v.new)
              /\ old[1].caption # old[2].caption
              /\ old[1].publish /\ old[1].is_representative
              /\ Len(v.instances[i].file_versions) = 2

Targets == {"archivesspace", "s3"}

\* C16: for each target a client is built at most once, and only once an
\* operation on that target has been called; the global holds that client
\* from then on and every request to the target is sent on it.
C16_ConnectionMemoized ==
    /\ \A t \in Targets :
          /\ v.built[t] <= 1
          /\ v.built[t] > 0 => t \in v.called
          /\ v.client[t].set <=> v.built[t] = 1
    /\ \A r \in v.sent : r.handle = 1 /\ v.client[r.target].id = 1

\* C17: no request is sent to the repository on a client whose
\* authorize() did not succeed, and a call during which authorize() failed
\* ends with that failure.
C17_AuthFailureFatal ==
    /\ \A r \in v.sent : r.target = "archivesspace" => r.authorized
    /\ (v.pc = "idle" /\ v.authFailed # "") => v.result = v.authFailed

\* the attempts of a repository call, each with the exception it raised
\* ("" if none) and the time elapsed when it ended
C18_Log ==
    v.op \in RepositoryOps =>
        LET n == Len(v.log)
        IN  /\ \A i \in 1..n :
                  (i < n \/ v.pc = "attempt") =>
                      /\ v.log[i].error \in BackoffClasses
                      /\ v.log[i].at < max_time
            /\ (v.pc = "idle" /\ n > 0) =>
                  IF v.log[n].error = "" THEN v.result = "ok"
                  ELSE /\ v.result = v.log[n].error
                       /\ \/ v.log[n].error \notin BackoffClasses
                          \/ v.log[n].at >= max_time

\* C18: an attempt of archivessnake_get / archivessnake_post is followed
\* by another exactly when it raised one of the classes given to backoff
\* and max_time had not elapsed; any other failure, and the last failure
\* once max_time has elapsed, is the exception the call ends with; and
\* every call ends.
C18_RetryPolicy ==
    []C18_Log /\ ((v.pc = "attempt") ~> (v.pc = "idle"))

C18_Witness ==
    /\ v.op \in RepositoryOps
    /\ v.pc = "idle"
    /\ Len(v.log) >= 3
    /\ v.result \in BackoffClasses
    /\ v.log[1].error # v.log[2].error

\* C19: a call of any of the five operations that ends with a transient
\* network failure has been tried again until max_time had elapsed.
C19_EveryCallRetried ==
    (/\ v.pc = "idle"
     /\ v.op \in RepositoryOps \cup ObjectStoreOps
     /\ v.result \in TransientNetwork) =>
        v.log[Len(v.log)].at >= max_time

\* C20: when the response to the post of the digital object carries an
\* error, create_digital_object raises ValueError if the error says that
\* digital_object_id must be unique and RuntimeError for every other
\* error, an error on digital_object_id with another message included; in
\* both cases no instance has been appended to the archival object and the
\* archival object has not been posted.
C20_ErrorOutcomes ==
    (v.pc # "called" /\ v.response.error) =>
        /\ v.pc = "raised"
        /\ v.error = IF /\ "digital_object_id" \in v.response.keys
                        /\ "Must be unique" \in v.response.messages
                     THEN "ValueError" ELSE "RuntimeError"
        /\ v.instances = v.before
        /\ v.recordPosts = 0

\* C21: execute() never yields a tuple for a directory entry that has no
\* file child (every yielded file set holds a file): when it reaches such
\* an entry it reports it instead.
C21_InvalidEntryReported ==
    \A i \in 1..Len(yielded) : yielded[i].files # {}

\* how many times a list holds a value
Count(list, x) == Cardinality({i \in 1..Len(list) : list[i] = x})

\* C22: when validate_digital_files returns, every first-level entry has
\* been inspected; a directory entry is in nested_directories once if it
\* has an immediate subdirectory child and not at all otherwise, in
\* empty_directories once if it has no immediate file child and not at all
\* otherwise; a file entry is in neither.
C22_ValidationReport ==
    v.pc = "returned" =>
        \A e \in v.listed :
            /\ Count(v.nested_directories, e.name) =
                   IF e.kind = "dir" /\ "d" \in e.kids THEN 1 ELSE 0
            /\ Count(v.empty_directories, e.name) =
                   IF e.kind = "dir" /\ FileKids(e) = {} THEN 1 ELSE 0

\* a file whose name is in FILES_TO_REMOVE is an entry of the directory or
\* a child of one of its entries
HoldsFileToRemove(dir) ==
    \E e \in dir.entries :
        \/ e.kind = "file" /\ e.name \in FilesToRemove
        \/ "j" \in e.kids

\* C23: from the moment execute() resolves its first entry, no file named
\* in FILES_TO_REMOVE is left under the batch root; no such file is a path
\* of the loop, and no yielded tuple is such a file or has one in its file
\* set.
C23_HousekeepingFirst ==
    /\ pc \in {"resolve", "move", "yield", "suspended"} =>
          \A i \in 1..3 : ~HoldsFileToRemove(stage[i])
    /\ \A k \in 1..Len(queue) :
          \A e \in At(stage[queue[k][1]], queue[k][2]) :
              ~(e.kind = "file" /\ e.name \in FilesToRemove)
    /\ \A i \in 1..Len(yielded) :
          /\ "j" \notin yielded[i].files
          /\ yielded[i].name \in FilesToRemove => yielded[i].files # {"self"}

C23_Witness ==
    /\ run = 1
    /\ created = 2
    /\ source.entries = {}
    /\ Cardinality(batchIds) = 1
    /\ Len(yielded) = 1
    /\ yielded[1].files = {}

\* the index of the first entry of fvs with the given file_uri
FirstIndex(fvs, uri) ==
    CHOOSE i \in 1..Len(fvs) :
        /\ fvs[i].file_uri = uri
        /\ \A j \in 1..Len(fvs) : fvs[j].file_uri = uri => i <= j

\* C24: the file_versions save_digital_object_file_versions writes are,
\* first, the entries of new_file_versions in the order in which their
\* file URIs come in new_file_versions, then the pre-existing entries
\* whose file URI is not among the new ones, in the order they had.
C24_ReconcileOrder ==
    v.calls >= 1 =>
        \A i \in DigitalObjects(v.instances) :
            LET fvs == v.instances[i].file_versions
                old == v.before[i].file_versions
                isNew(j) == fvs[j].file_uri \in UrisOf(v.new)
            IN  \A j, k \in 1..Len(fvs) :
                    j < k =>
                        /\ isNew(k) => isNew(j)
                        /\ (isNew(j) /\ isNew(k)) =>
                              FirstIndex(v.new, fvs[j].file_uri)
                                  < FirstIndex(v.new, fvs[k].file_uri)
                        /\ (~isNew(j) /\ ~isNew(k)) =>
                              FirstIndex(old, fvs[j].file_uri)
                                  < FirstIndex(old, fvs[k].file_uri)

C24_Witness ==
    /\ v.calls = 1
    /\ \E i \in DigitalObjects(v.instances) :
          LET fvs == v.instances[i].file_versions
              old == v.before[i].file_versions
          IN  /\ Len(fvs) = 2
              /\ Len(old) = 2
              /\ Len(v.new) = 2
              /\ fvs[1] = v.new[2]
              /\ old[1].file_uri = v.new[1].file_uri
              /\ fvs[2].file_uri = old[2].file_uri

\* the entry the loop of execute() is at is in STAGE_i
CurrentIn(i) == At(stage[i], Head(queue)[2]) # {}

\* where the steps of execute() find the entry: resolved before it is
\* moved, moved before it is yielded
C25_State ==
    /\ pc = "move" => cur # {} /\ CurrentIn(1)
    /\ pc = "yield" => cur # {} /\ CurrentIn(2) /\ ~CurrentIn(1)
    /\ \A i \in 1..Len(yielded) : yielded[i].ids # {} /\ yielded[i].record # {}

\* the step that yields an entry finds it in STAGE_2_WORKING; a step that
\* changes the entries of STAGE_3_COMPLETE is not a step of execute(), but
\* move_to_stage_3 on a yielded STAGE_2_WORKING path
C25_Step ==
    /\ Len(yielded') > Len(yielded) =>
        /\ pc = "yield" /\ stage' = stage
        /\ yielded'[Len(yielded')].name = Head(queue)[2]
        /\ CurrentIn(2) /\ ~CurrentIn(1)
    /\ IdsOf(stage'[3]) # IdsOf(stage[3]) =>
        /\ <<pc, queue, cur, yielded, run>>' = <<pc, queue, cur, yielded, run>>
        /\ \E n \in YieldedNames : stage' = move_to_stage_3(stage, 2, n).stage

\* C25: for each entry execute() resolves the catalog record before it
\* moves the entry and moves it before it yields it, so that an entry is
\* in STAGE_2_WORKING and not in STAGE_1_INITIAL when its tuple is
\* yielded; and the entries of STAGE_3_COMPLETE change only by
\* move_to_stage_3 called by the consumer, never by execute().
C25_StepOrder == []C25_State /\ [][C25_Step]_vars

C25_Witness ==
    /\ pc = "suspended"
    /\ Len(yielded) = 2
    /\ yielded[1].run = yielded[2].run
    /\ yielded[1].ids \subseteq IdsOf(stage[3])
    /\ yielded[2].ids \subseteq IdsOf(stage[2])
    /\ stage[1].entries # {}

\* the instances that reference the digital object the call created
RefersToCreated(instances) ==
    {i \in 1..Len(instances) :
        instances[i].ref = <<"digital_objects", v.digitalObjects>>}

\* C26: however create_digital_object ends (returned, or raised at the
\* post of the digital object, at the post of the archival object or at
\* the second find_archival_object), a digital object the call created in
\* the repository is referenced by an instance of the repository's
\* archival object; and a returned record holds an instance that
\* references the returned digital object.
C26_AllOrNothing ==
    v.pc \in {"raised", "returned"} =>
        /\ v.digitalObjects > 0 => RefersToCreated(v.repository) # {}
        /\ v.pc = "returned" => RefersToCreated(v.returnedInstances) # {}

====
